---- MODULE Spec2Model ----
(***************************************************************************)
(* Model of the VM runner storage layer                                    *)
(* (core/lib/zksync_core/src/vm_runner/storage.rs):                        *)
(*   - State            : the lock-guarded {l1_batch_number, storage}      *)
(*   - StorageSyncTask  : the background task that advances the RocksDB    *)
(*                        cache and refills the in-memory window           *)
(*   - VmRunnerStorage  : access_storage_inner / load_batch, called by     *)
(*                        VM runner workers                                *)
(* Postgres, the RocksDB cache and the loader (progress source) are the    *)
(* environment.                                                            *)
(* And of the Merkle tree wrapper (core/lib/merkle_tree/src/domain.rs):    *)
(*   - ZkSyncTree       : pruner() and extract_writes                      *)
(***************************************************************************)
EXTENDS Integers, Sequences, FiniteSets, TLC

\* ------------------------------------------------------------------ bounds
\* Highest L1 batch the environment ever seals.
MaxBatch == 3
\* The `max_batches_to_load` argument VmRunnerStorage::new is given.
MaxWindow == 2
\* The same, in the runs over batches that differ in what they write.
DataWindow == 3

\* Longest `logs` and `entries` sequences given to extract_writes.
MaxLogs == 3

\* ------------------------------------------------------- program constants
\* validation_computational_gas_limit passed by load_batch_data: u32::MAX,
\* kept symbolic.
U32Max == "u32::MAX"

\* Workers calling the facade.
Readers == {"w1", "w2"}

Keys == {"k1", "k2"}
Hashes == {"h1"}
EmptyMap == [x \in {} |-> 0]

\* What Postgres can hold for one sealed batch: the miniblocks in execution
\* order, the touched slots with their written values, the factory deps.
\* The content every batch has in the runs that do not vary the data.
PlainContents ==
    { [miniblocks |-> <<1>>, touched_slots |-> [x \in {"k1"} |-> 1],
       factory_deps |-> EmptyMap] }

BatchContents ==
    { [miniblocks |-> <<1, 2>>, touched_slots |-> [x \in {"k1"} |-> 1],
       factory_deps |-> [x \in {"h1"} |-> 1]],
      [miniblocks |-> <<2, 1>>, touched_slots |-> [x \in {"k1"} |-> 2],
       factory_deps |-> EmptyMap],
      [miniblocks |-> <<1>>, touched_slots |-> [x \in {"k2"} |-> 1],
       factory_deps |-> [x \in {"h1"} |-> 2]] }

\* Two batches that differ in the order of their miniblocks.
ReplayContents ==
    { [miniblocks |-> <<1, 2>>, touched_slots |-> [x \in {"k1"} |-> 1],
       factory_deps |-> [x \in {"h1"} |-> 1]],
      [miniblocks |-> <<2, 1>>, touched_slots |-> [x \in {"k1"} |-> 2],
       factory_deps |-> EmptyMap] }

\* A batch number Postgres has no miniblock for.
UnassembledContent ==
    [miniblocks |-> <<>>, touched_slots |-> EmptyMap, factory_deps |-> EmptyMap]

\* Batches, some of them without miniblocks.
GapContents == PlainContents \cup {UnassembledContent}

\* The genesis batch #0.
GenesisContent ==
    [miniblocks |-> <<>>, touched_slots |-> EmptyMap, factory_deps |-> EmptyMap]

VARIABLES
    max_batches_to_load,    \* VmRunnerStorage / StorageSyncTask field
    db,                     \* Postgres: db[n] is the content of sealed batch n
    processed,              \* what the loader's latest_processed_batch reports
    stop,                   \* the stop_receiver's value
    rocksdb_cell,           \* the OnceCell holding RocksDB is initialized
    rocksdb_version,        \* batch the RocksDB cache was last synchronized to
    catchup_target,         \* batch AsyncCatchupTask was constructed with
    l1_batch_number,        \* State.l1_batch_number
    storage,                \* State.storage (BTreeMap batch -> StorageData)
    write_locked,           \* the RwLock is held exclusively
    read_holders,           \* the workers holding the RwLock shared
    sync_pc,                \* position of StorageSyncTask::run
    sync_result,            \* "running", "ok" or "err"
    latest_processed_batch, \* local of run
    fill_next,              \* loop variable of the fill loop in run
    max_desired,            \* local of run
    rd_pc,                  \* position of each worker's facade call
    rd_op,                  \* "view" (access_storage) or "load" (load_batch)
    rd_n,                   \* the call's l1_batch_number argument
    rd_path,                \* "direct" (Postgres) or "cached" (RocksDB), "none" when idle
    rd_result,              \* what the call returned
    direct_result,          \* last Some(..) load_batch returned on the direct path
    wm_high,                \* highest State.l1_batch_number so far
    pruning_enabled,        \* ZkSyncTree.pruning_enabled
    pruners,                \* how many pruners ZkSyncTree::pruner has returned
    pruner_call,            \* outcome of the last pruner() call
    ew_logs,                \* extract_writes: the `logs` argument
    ew_entries,             \* extract_writes: the `entries` argument
    ew_pc,                  \* "input" before extract_writes ran, "done" after
    initial_writes,         \* extract_writes: first component of the result
    repeated_writes         \* extract_writes: second component of the result

vars == <<max_batches_to_load, db, processed, stop, rocksdb_cell, rocksdb_version, catchup_target,
          l1_batch_number, storage, write_locked, read_holders, sync_pc,
          sync_result, latest_processed_batch, fill_next, max_desired,
          rd_pc, rd_op, rd_n, rd_path, rd_result, direct_result, wm_high,
          pruning_enabled, pruners, pruner_call, ew_logs, ew_entries, ew_pc,
          initial_writes, repeated_writes>>

tree_vars == <<pruning_enabled, pruners, pruner_call, ew_logs, ew_entries, ew_pc,
               initial_writes, repeated_writes>>
\* What no step of the storage layer touches: its configuration and the tree.
outside_vars == <<max_batches_to_load, tree_vars>>
env_vars == <<outside_vars, db, processed, stop>>
state_vars == <<l1_batch_number, storage, wm_high>>
sync_locals == <<latest_processed_batch, fill_next, max_desired>>
rd_vars == <<rd_pc, rd_op, rd_n, rd_path, rd_result, direct_result>>

\* ----------------------------------------------------------------- helpers
Max(S) == CHOOSE x \in S : \A y \in S : y <= x
Min2(a, b) == IF a <= b THEN a ELSE b

\* ------------------------------------------------------ Postgres (queries)
\* blocks_dal().get_sealed_l1_batch_number().unwrap_or_default()
SealedL1BatchNumber(d) == Len(d)

BatchContent(d, n) == IF n = 0 THEN GenesisContent ELSE d[n]

\* L1BatchParamsProvider::load_first_miniblock_in_batch: Some iff the batch
\* exists in Postgres and has a miniblock.
load_first_miniblock_in_batch(d, n) ==
    /\ n >= 0
    /\ n <= Len(d)
    /\ (n = 0 \/ d[n].miniblocks # <<>>)

NoBatchData ==
    [l1_batch_env |-> [number |-> -1],
     system_env |-> [gas_limit |-> "none"],
     miniblocks |-> <<>>]

\* StorageSyncTask::load_batch_data: None when the batch has no first
\* miniblock, otherwise the batch env, the system env and the miniblocks.
load_batch_data(d, n) ==
    IF ~load_first_miniblock_in_batch(d, n)
    THEN [some |-> FALSE, data |-> NoBatchData]
    ELSE [some |-> TRUE,
          data |-> [l1_batch_env |-> [number |-> n],
                    system_env |-> [gas_limit |-> U32Max],
                    miniblocks |-> BatchContent(d, n).miniblocks]]

\* storage_logs_dal().get_touched_slots_for_l1_batch
get_touched_slots_for_l1_batch(d, n) == BatchContent(d, n).touched_slots

\* blocks_dal().get_l1_batch_factory_deps
get_l1_batch_factory_deps(d, n) == BatchContent(d, n).factory_deps

\* The batch of the initial write of key k (0 when it was never written).
InitialWriteBatch(d, k) ==
    LET ws == {b \in 1..Len(d) : k \in DOMAIN d[b].touched_slots}
    IN IF ws = {} THEN 0 ELSE CHOOSE b \in ws : \A c \in ws : b <= c

KeyOrd(k) == IF k = "k1" THEN 1 ELSE 2

\* storage_logs_dal().get_l1_batches_and_indices_for_initial_writes: the
\* enumeration index of a key is its rank among the keys in order of their
\* initial write.
InitialWriteIndex(d, k) ==
    Cardinality({j \in Keys :
        /\ InitialWriteBatch(d, j) > 0
        /\ \/ InitialWriteBatch(d, j) < InitialWriteBatch(d, k)
           \/ /\ InitialWriteBatch(d, j) = InitialWriteBatch(d, k)
              /\ KeyOrd(j) <= KeyOrd(k)})

\* The value of key k in Postgres as of batch v (0 when never written).
DbValueAsOf(d, v, k) ==
    LET ws == {b \in 1..Min2(v, Len(d)) : k \in DOMAIN d[b].touched_slots}
    IN IF ws = {} THEN 0 ELSE d[Max(ws)].touched_slots[k]

\* ------------------------------------------------- RocksDB cache (catch-up)
\* RocksdbStorageBuilder::synchronize(conn, stop, Some(to)): brings the cache
\* to batch `to` and returns a handle pinned there.
synchronize(version, to) == to

\* ------------------------------------------------------------ shared State
\* StorageData built by the fill loop of run for batch n.
StorageDataFor(d, n) ==
    [batch_data |-> load_batch_data(d, n).data,
     storage_diffs |->
        [k \in DOMAIN get_touched_slots_for_l1_batch(d, n) |->
            [value |-> get_touched_slots_for_l1_batch(d, n)[k],
             enum_index |-> InitialWriteIndex(d, k)]],
     factory_deps |-> get_l1_batch_factory_deps(d, n)]

\* Mutant: the watermark is moved by the progress made, not set to it.
NextWatermark_delta(cur, lpb) == lpb - cur

\* state.l1_batch_number = latest_processed_batch
NextWatermark(cur, lpb) == lpb

\* Mutant: retain keeps the processed batch itself (>= for >).
Retain_ge(st, lpb) == [b \in {x \in DOMAIN st : x >= lpb} |-> st[b]]

\* Mutant: retain also drops the batch after the processed one.
Retain_above(st, lpb) == [b \in {x \in DOMAIN st : x > lpb + 1} |-> st[b]]

\* Mutant: the window is cleared in every iteration (clear() for retain).
Retain_clear(st, lpb) == [b \in {x \in DOMAIN st : FALSE} |-> st[b]]

\* state.storage.retain(|l1_batch_number, _| l1_batch_number > &latest_processed_batch)
Retain(st, lpb) == [b \in {x \in DOMAIN st : x > lpb} |-> st[b]]

\* Mutant: unwrap_or_default() for unwrap_or(latest_processed_batch).
MaxPresent_default(st, lpb) == IF DOMAIN st = {} THEN 0 ELSE Max(DOMAIN st)

\* Mutant: the fill range starts after the processed batch even when the
\* window holds entries.
MaxPresent_processed(st, lpb) == lpb

\* state.storage.last_entry().map(|e| *e.key()).unwrap_or(latest_processed_batch)
MaxPresent(st, lpb) == IF DOMAIN st = {} THEN lpb ELSE Max(DOMAIN st)

\* Mutant: the fill range is one batch too long.
MaxDesired_plus1(lpb) == lpb + max_batches_to_load + 1

\* Mutant: nothing is loaded ahead of the processed batch.
MaxDesired_none(lpb) == lpb

\* latest_processed_batch + self.max_batches_to_load
MaxDesired(lpb) == lpb + max_batches_to_load

\* Mutant: the entry is stored under the next batch number.
Insert_next(st, sd) ==
    [b \in DOMAIN st \cup {sd.batch_data.l1_batch_env.number + 1} |->
        IF b = sd.batch_data.l1_batch_env.number + 1 THEN sd ELSE st[b]]

\* state.storage.insert(batch_data.l1_batch_env.number, StorageData {..})
Insert(st, sd) ==
    [b \in DOMAIN st \cup {sd.batch_data.l1_batch_env.number} |->
        IF b = sd.batch_data.l1_batch_env.number THEN sd ELSE st[b]]

\* ---------------------------------------------------------------- facade
\* (state.l1_batch_number + self.max_batches_to_load).min(sealed batch)
MaxL1Batch(wm, sealed) == Min2(wm + max_batches_to_load, sealed)

\* Mutant: the lower bound of the range check uses <= for <.
ViewOutOfRange_le(n, wm, maxb) == n <= wm \/ n > maxb

\* Mutant: the range check has no lower bound.
ViewOutOfRange_noLower(n, wm, maxb) == n > maxb

\* access_storage_inner: the bail! condition
ViewOutOfRange(n, wm, maxb) == n < wm \/ n > maxb

\* access_storage_inner: the sleep-and-retry condition
ViewMustWait(n, wm, st) == n # wm /\ n \notin DOMAIN st

\* Mutant: the lower bound of the availability check uses < for <=.
LoadOutOfRange_lt(n, wm, maxb) == n < wm \/ n > maxb

\* load_batch: the `return Ok(None)` condition
LoadOutOfRange(n, wm, maxb) == n <= wm \/ n > maxb

\* Mutant: the map is iterated from its last key down.
RECURSIVE KeysUpTo_desc(_, _)
KeysUpTo_desc(S, n) ==
    IF {x \in S : x <= n} = {} THEN <<>>
    ELSE LET m == Max({x \in S : x <= n})
         IN <<m>> \o KeysUpTo_desc(S \ {m}, n)

\* The keys of st that are <= n, in the BTreeMap's iteration order.
RECURSIVE KeysUpTo(_, _)
KeysUpTo(S, n) ==
    IF {x \in S : x <= n} = {} THEN <<>>
    ELSE LET m == Max({x \in S : x <= n})
         IN Append(KeysUpTo(S \ {m}, n), m)

\* Mutant: the overlay filter uses < for <=.
OverlayDiffs_lt(st, n) ==
    [i \in 1..Len(KeysUpTo(DOMAIN st, n - 1)) |->
        st[KeysUpTo(DOMAIN st, n - 1)[i]].storage_diffs]

\* access_storage_inner: storage.iter().filter_map(x <= n => storage_diffs)
OverlayDiffs(st, n) ==
    [i \in 1..Len(KeysUpTo(DOMAIN st, n)) |-> st[KeysUpTo(DOMAIN st, n)[i]].storage_diffs]

\* access_storage_inner: storage.iter().filter_map(x <= n => factory_deps)
OverlayDeps(st, n) ==
    [i \in 1..Len(KeysUpTo(DOMAIN st, n)) |-> st[KeysUpTo(DOMAIN st, n)[i]].factory_deps]

\* Mutant: the first entry of the map is returned (first_key_value for get).
CachedBatchData_first(st, n) ==
    st[CHOOSE b \in DOMAIN st : \A c \in DOMAIN st : b <= c].batch_data

\* load_batch on the cached path: storage_data.batch_data.clone()
CachedBatchData(st, n) == st[n].batch_data

\* Results of a facade call.
NoResult ==
    [kind |-> "none_yet", batch_data |-> NoBatchData, snapshot |-> 0,
     storage_diffs |-> <<>>, factory_deps |-> <<>>]
Res(kind) == [NoResult EXCEPT !.kind = kind]
ResSome(data) == [NoResult EXCEPT !.kind = "some", !.batch_data = data]
ResView(snap, diffs, deps) ==
    [NoResult EXCEPT !.kind = "view", !.snapshot = snap,
                     !.storage_diffs = diffs, !.factory_deps = deps]
ResPg(n) == [NoResult EXCEPT !.kind = "pg", !.snapshot = n]

\* PgOrRocksdbStorage::RocksdbWithMemory read of key k: the last overlay that
\* holds k shadows the earlier ones, and the pinned snapshot is the fallback.
RECURSIVE ResolveIn(_, _, _)
ResolveIn(diffs, k, fallback) ==
    IF diffs = <<>> THEN fallback
    ELSE IF k \in DOMAIN diffs[Len(diffs)]
         THEN diffs[Len(diffs)][k].value
         ELSE ResolveIn(SubSeq(diffs, 1, Len(diffs) - 1), k, fallback)

ReadValue(d, view, k) ==
    ResolveIn(view.storage_diffs, k, DbValueAsOf(d, view.snapshot, k))

\* ------------------------------------------------------------------- Init
\* VmRunnerStorage::new: State {l1_batch_number: 0, storage: empty}; the
\* catch-up task is constructed with the loader's latest processed batch.
\* The workers in A call into the storage; the others never do.
InitStorage(W, A) ==
    /\ max_batches_to_load = W
    /\ stop = FALSE
    /\ rocksdb_cell = FALSE
    /\ rocksdb_version = 0
    /\ catchup_target = processed
    /\ l1_batch_number = 0
    /\ storage = EmptyMap
    /\ write_locked = FALSE
    /\ read_holders = {}
    /\ sync_pc = "catchup"
    /\ sync_result = "running"
    /\ latest_processed_batch = 0
    /\ fill_next = 0
    /\ max_desired = 0
    /\ rd_pc = [r \in Readers |-> IF r \in A THEN "idle" ELSE "off"]
    /\ rd_op = [r \in Readers |-> "view"]
    /\ rd_n = [r \in Readers |-> 0]
    /\ rd_path = [r \in Readers |-> "none"]
    /\ rd_result = [r \in Readers |-> NoResult]
    /\ direct_result = [n |-> -1, data |-> NoBatchData]
    /\ wm_high = 0

\* No tree is in use.
InitTreeIdle ==
    /\ pruning_enabled = FALSE
    /\ pruners = 0
    /\ pruner_call = "none"
    /\ ew_logs = <<>>
    /\ ew_entries = <<>>
    /\ ew_pc = "input"
    /\ initial_writes = <<>>
    /\ repeated_writes = <<>>

InitWorkers(W, A) == InitStorage(W, A) /\ InitTreeIdle

InitRest(W) == InitWorkers(W, {"w1"})

InitWith(C, W) ==
    /\ db \in UNION {[1..n -> C] : n \in 0..1}
    /\ processed \in 0..Len(db)
    /\ InitRest(W)

Init == InitWith(PlainContents, MaxWindow)

InitData == InitWith(BatchContents, DataWindow)

InitReplay == InitWith(ReplayContents, MaxWindow)

\* ------------------------------------------------------------ environment
\* The state keeper seals the next L1 batch.
SealBatchWith(C) ==
    /\ Len(db) < MaxBatch
    /\ \E c \in C : db' = Append(db, c)
    /\ UNCHANGED <<outside_vars, processed, stop, rocksdb_cell, rocksdb_version, catchup_target,
                   state_vars, write_locked, read_holders, sync_pc, sync_result,
                   sync_locals, rd_vars>>

SealBatch == SealBatchWith(PlainContents)

SealBatchData == SealBatchWith(BatchContents)

SealBatchReplay == SealBatchWith(ReplayContents)

\* The VM runner instance marks further sealed batches as processed.
AdvanceProcessed ==
    /\ \E p \in (processed + 1)..Len(db) : processed' = p
    /\ UNCHANGED <<outside_vars, db, stop, rocksdb_cell, rocksdb_version, catchup_target,
                   state_vars, write_locked, read_holders, sync_pc, sync_result,
                   sync_locals, rd_vars>>

\* The stop signal is sent.
Stop ==
    /\ ~stop
    /\ stop' = TRUE
    /\ UNCHANGED <<outside_vars, db, processed, rocksdb_cell, rocksdb_version, catchup_target,
                   state_vars, write_locked, read_holders, sync_pc, sync_result,
                   sync_locals, rd_vars>>

\* ------------------------------------------------- StorageSyncTask::run
\* Mutant: the catch-up also moves the watermark to the batch it reached.
SyncCatchup_setsWatermark ==
    /\ sync_pc = "catchup"
    /\ rocksdb_cell' = TRUE
    /\ rocksdb_version' = catchup_target
    /\ l1_batch_number' = catchup_target
    /\ wm_high' = catchup_target
    /\ catchup_target' = 0
    /\ sync_pc' = "loop"
    /\ UNCHANGED <<env_vars, storage, write_locked, read_holders,
                   sync_result, sync_locals, rd_vars>>

\* self.catchup_task.run(..).await?: the catch-up initializes the cell at the
\* batch it was constructed with.
SyncCatchup ==
    /\ sync_pc = "catchup"
    /\ rocksdb_cell' = TRUE
    /\ rocksdb_version' = catchup_target
    /\ catchup_target' = 0
    /\ sync_pc' = "loop"
    /\ UNCHANGED <<env_vars, state_vars, write_locked, read_holders,
                   sync_result, sync_locals, rd_vars>>

\* The catch-up observes the stop signal: it returns without an error and
\* without setting the cell.
SyncCatchupInterrupted ==
    /\ sync_pc = "catchup"
    /\ stop
    /\ sync_pc' = "cell"
    /\ catchup_target' = 0
    /\ UNCHANGED <<env_vars, rocksdb_cell, rocksdb_version, state_vars,
                   write_locked, read_holders, sync_result, sync_locals, rd_vars>>

\* self.rocksdb_cell.get().ok_or_else(|| anyhow!("Expected RocksDB to be
\* initialized by `AsyncCatchupTask`"))? on an unset cell: run returns the
\* error.
SyncCellMissing ==
    /\ sync_pc = "cell"
    /\ ~rocksdb_cell
    /\ sync_pc' = "done"
    /\ sync_result' = "err"
    /\ UNCHANGED <<env_vars, rocksdb_cell, rocksdb_version, catchup_target,
                   state_vars, write_locked, read_holders, sync_locals, rd_vars>>

\* The catch-up fails (`?`): run returns the error.
SyncCatchupFail ==
    /\ sync_pc = "catchup"
    /\ sync_pc' = "done"
    /\ sync_result' = "err"
    /\ catchup_target' = 0
    /\ UNCHANGED <<env_vars, rocksdb_cell, rocksdb_version, state_vars,
                   write_locked, read_holders, sync_locals, rd_vars>>

\* if *stop_receiver.borrow() { return Ok(()) }
SyncLoopTop ==
    /\ sync_pc = "loop"
    /\ ~stop
    /\ sync_pc' = "acquire"
    /\ UNCHANGED <<env_vars, rocksdb_cell, rocksdb_version, catchup_target,
                   state_vars, write_locked, read_holders, sync_result,
                   sync_locals, rd_vars>>

SyncLoopStop ==
    /\ sync_pc = "loop"
    /\ stop
    /\ sync_pc' = "done"
    /\ sync_result' = "ok"
    /\ UNCHANGED <<env_vars, rocksdb_cell, rocksdb_version, catchup_target,
                   state_vars, write_locked, read_holders, sync_locals, rd_vars>>

\* let mut state = self.state.write().await
\* Mutant: the iteration runs without the write guard.
SyncAcquire_noGuard ==
    /\ sync_pc = "acquire"
    /\ sync_pc' = "query"
    /\ UNCHANGED <<env_vars, rocksdb_cell, rocksdb_version, catchup_target,
                   state_vars, write_locked, read_holders, sync_result,
                   sync_locals, rd_vars>>

SyncAcquire ==
    /\ sync_pc = "acquire"
    /\ ~write_locked
    /\ read_holders = {}
    /\ write_locked' = TRUE
    /\ sync_pc' = "query"
    /\ UNCHANGED <<env_vars, rocksdb_cell, rocksdb_version, catchup_target,
                   state_vars, read_holders, sync_result, sync_locals, rd_vars>>

\* run returns while the write guard is held: the guard is dropped.
SyncReturn(res) ==
    /\ sync_pc' = "done"
    /\ sync_result' = res
    /\ write_locked' = FALSE
    /\ latest_processed_batch' = 0
    /\ fill_next' = 0
    /\ max_desired' = 0
    /\ UNCHANGED <<env_vars, rocksdb_cell, rocksdb_version, catchup_target,
                   state_vars, read_holders, rd_vars>>

\* let mut conn = ..connection_tagged(..).await?;
\* let latest_processed_batch = self.loader.latest_processed_batch(&mut conn).await?;
SyncQuery ==
    /\ sync_pc = "query"
    /\ latest_processed_batch' = processed
    /\ sync_pc' = "synchronize"
    /\ UNCHANGED <<env_vars, rocksdb_cell, rocksdb_version, catchup_target,
                   state_vars, write_locked, read_holders, sync_result,
                   fill_next, max_desired, rd_vars>>

SyncQueryFail ==
    /\ sync_pc = "query"
    /\ SyncReturn("err")

\* rocksdb_builder.synchronize(&mut conn, &stop_receiver, Some(latest_processed_batch))
SyncSynchronize ==
    /\ sync_pc = "synchronize"
    /\ rocksdb_version' = synchronize(rocksdb_version, latest_processed_batch)
    /\ sync_pc' = "set_watermark"
    /\ UNCHANGED <<env_vars, rocksdb_cell, catchup_target, state_vars,
                   write_locked, read_holders, sync_result, sync_locals, rd_vars>>

\* Mutant: the interrupted iteration still moves the watermark.
SyncSynchronizeInterrupted_commit ==
    /\ sync_pc = "synchronize"
    /\ stop
    /\ sync_pc' = "done"
    /\ sync_result' = "ok"
    /\ write_locked' = FALSE
    /\ l1_batch_number' = latest_processed_batch
    /\ wm_high' = Max({wm_high, latest_processed_batch})
    /\ latest_processed_batch' = 0
    /\ fill_next' = 0
    /\ max_desired' = 0
    /\ UNCHANGED <<env_vars, rocksdb_cell, rocksdb_version, catchup_target,
                   storage, read_holders, rd_vars>>

\* "`StorageSyncTask` was interrupted during RocksDB synchronization": Ok(())
SyncSynchronizeInterrupted ==
    /\ sync_pc = "synchronize"
    /\ stop
    /\ SyncReturn("ok")

SyncSynchronizeFail ==
    /\ sync_pc = "synchronize"
    /\ SyncReturn("err")

\* state.l1_batch_number = latest_processed_batch
SyncSetWatermark ==
    /\ sync_pc = "set_watermark"
    /\ l1_batch_number' = NextWatermark(l1_batch_number, latest_processed_batch)
    /\ wm_high' = IF l1_batch_number' > wm_high THEN l1_batch_number' ELSE wm_high
    /\ sync_pc' = "retain"
    /\ UNCHANGED <<env_vars, rocksdb_cell, rocksdb_version, catchup_target,
                   storage, write_locked, read_holders, sync_result,
                   sync_locals, rd_vars>>

\* state.storage.retain(..); max_present; max_desired
SyncRetain ==
    /\ sync_pc = "retain"
    /\ storage' = Retain(storage, latest_processed_batch)
    /\ fill_next' = MaxPresent(storage', latest_processed_batch) + 1
    /\ max_desired' = MaxDesired(latest_processed_batch)
    /\ sync_pc' = "fill"
    /\ UNCHANGED <<env_vars, rocksdb_cell, rocksdb_version, catchup_target,
                   l1_batch_number, wm_high, write_locked, read_holders,
                   sync_result, latest_processed_batch, rd_vars>>

\* Mutant: a batch that is not sealed yet is stored with what Postgres holds
\* of it so far.
SyncFill_unsealed ==
    /\ sync_pc = "fill"
    /\ fill_next <= max_desired
    /\ storage' = Insert(storage,
            IF load_batch_data(db, fill_next).some
            THEN StorageDataFor(db, fill_next)
            ELSE [batch_data |-> [l1_batch_env |-> [number |-> fill_next],
                                  system_env |-> [gas_limit |-> U32Max],
                                  miniblocks |-> <<>>],
                  storage_diffs |-> EmptyMap,
                  factory_deps |-> EmptyMap])
    /\ fill_next' = fill_next + 1
    /\ UNCHANGED <<env_vars, rocksdb_cell, rocksdb_version, catchup_target,
                   l1_batch_number, wm_high, write_locked, read_holders,
                   sync_pc, sync_result, latest_processed_batch, max_desired,
                   rd_vars>>

\* One round of `for l1_batch_number in max_present.0 + 1..=max_desired.0`
\* that loads a batch and inserts it.
SyncFill ==
    /\ sync_pc = "fill"
    /\ fill_next <= max_desired
    /\ load_batch_data(db, fill_next).some
    /\ storage' = Insert(storage, StorageDataFor(db, fill_next))
    /\ fill_next' = fill_next + 1
    /\ UNCHANGED <<env_vars, rocksdb_cell, rocksdb_version, catchup_target,
                   l1_batch_number, wm_high, write_locked, read_holders,
                   sync_pc, sync_result, latest_processed_batch, max_desired,
                   rd_vars>>

\* Mutant: a batch that cannot be loaded is skipped and the loop goes on.
SyncFillEnd_skip ==
    /\ sync_pc = "fill"
    /\ \/ /\ fill_next > max_desired
          /\ sync_pc' = "release"
          /\ fill_next' = fill_next
       \/ /\ fill_next <= max_desired
          /\ ~load_batch_data(db, fill_next).some
          /\ sync_pc' = "fill"
          /\ fill_next' = fill_next + 1
    /\ UNCHANGED <<env_vars, rocksdb_cell, rocksdb_version, catchup_target,
                   state_vars, write_locked, read_holders, sync_result,
                   latest_processed_batch, max_desired, rd_vars>>

\* The range is exhausted, or load_batch_data returned None (`break`).
SyncFillEnd ==
    /\ sync_pc = "fill"
    /\ \/ fill_next > max_desired
       \/ ~load_batch_data(db, fill_next).some
    /\ sync_pc' = "release"
    /\ UNCHANGED <<env_vars, rocksdb_cell, rocksdb_version, catchup_target,
                   state_vars, write_locked, read_holders, sync_result,
                   sync_locals, rd_vars>>

\* Mutant: a failed load ends the task like a missing batch ends the loop,
\* without an error.
SyncFillFail_swallowed ==
    /\ sync_pc = "fill"
    /\ fill_next <= max_desired
    /\ SyncReturn("ok")

\* A DAL call of a round fails (`?`).
SyncFillFail ==
    /\ sync_pc = "fill"
    /\ fill_next <= max_desired
    /\ SyncReturn("err")

\* drop(conn); the write guard goes out of scope at the end of the loop body
SyncRelease ==
    /\ sync_pc = "release"
    /\ write_locked' = FALSE
    /\ latest_processed_batch' = 0
    /\ fill_next' = 0
    /\ max_desired' = 0
    /\ sync_pc' = "loop"
    /\ UNCHANGED <<env_vars, rocksdb_cell, rocksdb_version, catchup_target,
                   state_vars, read_holders, sync_result, rd_vars>>

\* ------------------------------------------ VmRunnerStorage (facade calls)
\* Batch numbers the workers ask for.
Requests == 0..(MaxBatch + 1)

sync_vars == <<rocksdb_cell, catchup_target, write_locked, sync_pc,
               sync_result, sync_locals>>

\* A worker starts a call: op "view" is access_storage, op "load" is load_batch.
Begin(r, op, n, path, pc) ==
    /\ rd_pc[r] = "idle"
    /\ rd_op' = [rd_op EXCEPT ![r] = op]
    /\ rd_n' = [rd_n EXCEPT ![r] = n]
    /\ rd_path' = [rd_path EXCEPT ![r] = path]
    /\ rd_pc' = [rd_pc EXCEPT ![r] = pc]

\* A call holding a result; the worker still holds the read guard it took.
Return(r, res) ==
    /\ rd_result' = [rd_result EXCEPT ![r] = res]
    /\ rd_pc' = [rd_pc EXCEPT ![r] = "release"]
    /\ UNCHANGED <<rd_op, rd_n, rd_path>>

\* Mutant: the Postgres branch applies the range check of the RocksDB branch.
CallDirectView_ranged(r) ==
    /\ ~rocksdb_cell
    /\ \E n \in Requests :
        /\ Begin(r, "view", n, "direct", "release")
        /\ rd_result' = [rd_result EXCEPT ![r] =
                IF ViewOutOfRange(n, l1_batch_number,
                                  MaxL1Batch(l1_batch_number, SealedL1BatchNumber(db)))
                THEN Res("out_of_range") ELSE ResPg(n)]
    /\ UNCHANGED <<env_vars, sync_vars, rocksdb_version, state_vars,
                   read_holders, direct_result>>

\* access_storage_inner with rocksdb_cell unset:
\* PgOrRocksdbStorage::access_storage_pg(&self.pool, l1_batch_number)
CallDirectView(r) ==
    /\ ~rocksdb_cell
    /\ \E n \in Requests :
        /\ Begin(r, "view", n, "direct", "release")
        /\ rd_result' = [rd_result EXCEPT ![r] = ResPg(n)]
    /\ UNCHANGED <<env_vars, sync_vars, rocksdb_version, state_vars,
                   read_holders, direct_result>>

\* Mutant: the Postgres branch applies the availability check of the RocksDB
\* branch.
CallDirectLoad_ranged(r) ==
    /\ ~rocksdb_cell
    /\ \E n \in Requests :
        /\ Begin(r, "load", n, "direct", "release")
        /\ IF /\ load_batch_data(db, n).some
              /\ ~LoadOutOfRange(n, l1_batch_number,
                                 MaxL1Batch(l1_batch_number, SealedL1BatchNumber(db)))
           THEN /\ rd_result' = [rd_result EXCEPT
                                    ![r] = ResSome(load_batch_data(db, n).data)]
                /\ direct_result' = [n |-> n, data |-> load_batch_data(db, n).data]
           ELSE /\ rd_result' = [rd_result EXCEPT ![r] = Res("none")]
                /\ UNCHANGED direct_result
    /\ UNCHANGED <<env_vars, sync_vars, rocksdb_version, state_vars, read_holders>>

\* Mutant: load_batch goes to Postgres whether or not the cell is set.
CallDirectLoad_anyCell(r) ==
    /\ \E n \in Requests :
        /\ Begin(r, "load", n, "direct", "release")
        /\ IF load_batch_data(db, n).some
           THEN /\ rd_result' = [rd_result EXCEPT
                                    ![r] = ResSome(load_batch_data(db, n).data)]
                /\ direct_result' = [n |-> n, data |-> load_batch_data(db, n).data]
           ELSE /\ rd_result' = [rd_result EXCEPT ![r] = Res("none")]
                /\ UNCHANGED direct_result
    /\ UNCHANGED <<env_vars, sync_vars, rocksdb_version, state_vars, read_holders>>

\* load_batch with rocksdb_cell unset: StorageSyncTask::load_batch_data
CallDirectLoad(r) ==
    /\ ~rocksdb_cell
    /\ \E n \in Requests :
        /\ Begin(r, "load", n, "direct", "release")
        /\ IF load_batch_data(db, n).some
           THEN /\ rd_result' = [rd_result EXCEPT
                                    ![r] = ResSome(load_batch_data(db, n).data)]
                /\ direct_result' = [n |-> n, data |-> load_batch_data(db, n).data]
           ELSE /\ rd_result' = [rd_result EXCEPT ![r] = Res("none")]
                /\ UNCHANGED direct_result
    /\ UNCHANGED <<env_vars, sync_vars, rocksdb_version, state_vars, read_holders>>

\* A Postgres call of the direct path fails.
CallDirectFail(r) ==
    /\ ~rocksdb_cell
    /\ \E op \in {"view", "load"}, n \in Requests :
        /\ Begin(r, op, n, "direct", "release")
        /\ rd_result' = [rd_result EXCEPT ![r] = Res("store_error")]
    /\ UNCHANGED <<env_vars, sync_vars, rocksdb_version, state_vars,
                   read_holders, direct_result>>

\* access_storage_inner with rocksdb_cell set: the call enters its loop.
CallCachedView(r) ==
    /\ rocksdb_cell
    /\ \E n \in Requests : Begin(r, "view", n, "cached", "acquire")
    /\ UNCHANGED <<env_vars, sync_vars, rocksdb_version, state_vars,
                   read_holders, rd_result, direct_result>>

\* load_batch with rocksdb_cell set: the call enters its loop.
CallCachedLoadIn(r, S) ==
    /\ rocksdb_cell
    /\ \E n \in S : Begin(r, "load", n, "cached", "acquire")
    /\ UNCHANGED <<env_vars, sync_vars, rocksdb_version, state_vars,
                   read_holders, rd_result, direct_result>>

CallCachedLoad(r) == CallCachedLoadIn(r, Requests)

\* Mutant: the read guard is handed out while the write guard is held.
ReaderAcquire_unguarded(r) ==
    /\ rd_pc[r] = "acquire"
    /\ read_holders' = read_holders \cup {r}
    /\ rd_pc' = [rd_pc EXCEPT ![r] = "locked"]
    /\ UNCHANGED <<env_vars, sync_vars, rocksdb_version, state_vars,
                   rd_op, rd_n, rd_path, rd_result, direct_result>>

\* let state = self.state.read().await
ReaderAcquire(r) ==
    /\ rd_pc[r] = "acquire"
    /\ ~write_locked
    /\ read_holders' = read_holders \cup {r}
    /\ rd_pc' = [rd_pc EXCEPT ![r] = "locked"]
    /\ UNCHANGED <<env_vars, sync_vars, rocksdb_version, state_vars,
                   rd_op, rd_n, rd_path, rd_result, direct_result>>

\* The connection or get_sealed_l1_batch_number fails (`?`).
ReaderStoreFail(r) ==
    /\ rd_pc[r] = "locked"
    /\ Return(r, Res("store_error"))
    /\ UNCHANGED <<env_vars, sync_vars, rocksdb_version, state_vars,
                   read_holders, direct_result>>

\* access_storage_inner: anyhow::bail!("Trying to access VM runner storage ..")
ViewBail(r) ==
    /\ rd_pc[r] = "locked"
    /\ rd_op[r] = "view"
    /\ ViewOutOfRange(rd_n[r], l1_batch_number,
                      MaxL1Batch(l1_batch_number, SealedL1BatchNumber(db)))
    /\ Return(r, Res("out_of_range"))
    /\ UNCHANGED <<env_vars, sync_vars, rocksdb_version, state_vars,
                   read_holders, direct_result>>

\* access_storage_inner: drop(state); drop(conn); sleep(100ms); continue
ViewWait(r) ==
    /\ rd_pc[r] = "locked"
    /\ rd_op[r] = "view"
    /\ ~ViewOutOfRange(rd_n[r], l1_batch_number,
                       MaxL1Batch(l1_batch_number, SealedL1BatchNumber(db)))
    /\ ViewMustWait(rd_n[r], l1_batch_number, storage)
    /\ read_holders' = read_holders \ {r}
    /\ rd_pc' = [rd_pc EXCEPT ![r] = "acquire"]
    /\ UNCHANGED <<env_vars, sync_vars, rocksdb_version, state_vars,
                   rd_op, rd_n, rd_path, rd_result, direct_result>>

\* Mutant: the read guard is dropped before the synchronize call.
ViewProceed_unlocked(r) ==
    /\ rd_pc[r] = "locked"
    /\ rd_op[r] = "view"
    /\ ~ViewOutOfRange(rd_n[r], l1_batch_number,
                       MaxL1Batch(l1_batch_number, SealedL1BatchNumber(db)))
    /\ ~ViewMustWait(rd_n[r], l1_batch_number, storage)
    /\ rd_pc' = [rd_pc EXCEPT ![r] = "synchronize"]
    /\ read_holders' = read_holders \ {r}
    /\ UNCHANGED <<env_vars, sync_vars, rocksdb_version, state_vars,
                   rd_op, rd_n, rd_path, rd_result, direct_result>>

\* access_storage_inner: the batch is the watermark or in the window; the call
\* goes on to synchronize.
ViewProceed(r) ==
    /\ rd_pc[r] = "locked"
    /\ rd_op[r] = "view"
    /\ ~ViewOutOfRange(rd_n[r], l1_batch_number,
                       MaxL1Batch(l1_batch_number, SealedL1BatchNumber(db)))
    /\ ~ViewMustWait(rd_n[r], l1_batch_number, storage)
    /\ rd_pc' = [rd_pc EXCEPT ![r] = "synchronize"]
    /\ UNCHANGED <<env_vars, sync_vars, rocksdb_version, state_vars,
                   read_holders, rd_op, rd_n, rd_path, rd_result, direct_result>>

\* rocksdb_builder.synchronize(&mut conn, stop_receiver, Some(state.l1_batch_number))
\* and the overlays: Ok(Some(RocksdbWithMemory(rocksdb, storage_diffs, factory_deps)))
ViewSynchronize(r) ==
    /\ rd_pc[r] = "synchronize"
    /\ rocksdb_version' = synchronize(rocksdb_version, l1_batch_number)
    /\ Return(r, ResView(rocksdb_version', OverlayDiffs(storage, rd_n[r]),
                         OverlayDeps(storage, rd_n[r])))
    /\ UNCHANGED <<env_vars, sync_vars, state_vars, read_holders, direct_result>>

\* synchronize observes the stop signal and returns Ok(None).
ViewInterrupted(r) ==
    /\ rd_pc[r] = "synchronize"
    /\ stop
    /\ rd_pc' = [rd_pc EXCEPT ![r] = "sync_none"]
    /\ UNCHANGED <<env_vars, sync_vars, rocksdb_version, state_vars,
                   read_holders, rd_op, rd_n, rd_path, rd_result, direct_result>>

\* Mutant: the interrupted synchronize is reported as a failure.
ViewReturnNone_err(r) ==
    /\ rd_pc[r] = "sync_none"
    /\ Return(r, Res("store_error"))
    /\ UNCHANGED <<env_vars, sync_vars, rocksdb_version, state_vars,
                   read_holders, direct_result>>

\* let Some(rocksdb) = rocksdb else { "Synchronizing RocksDB interrupted";
\* return Ok(None) }
ViewReturnNone(r) ==
    /\ rd_pc[r] = "sync_none"
    /\ Return(r, Res("interrupted"))
    /\ UNCHANGED <<env_vars, sync_vars, rocksdb_version, state_vars,
                   read_holders, direct_result>>

\* synchronize fails: "Failed to catch up RocksDB storage to Postgres"
ViewSynchronizeFail(r) ==
    /\ rd_pc[r] = "synchronize"
    /\ Return(r, Res("store_error"))
    /\ UNCHANGED <<env_vars, sync_vars, rocksdb_version, state_vars,
                   read_holders, direct_result>>

\* load_batch: "Trying to load an L1 batch that is not available": Ok(None)
LoadNone(r) ==
    /\ rd_pc[r] = "locked"
    /\ rd_op[r] = "load"
    /\ LoadOutOfRange(rd_n[r], l1_batch_number,
                      MaxL1Batch(l1_batch_number, SealedL1BatchNumber(db)))
    /\ Return(r, Res("none"))
    /\ UNCHANGED <<env_vars, sync_vars, rocksdb_version, state_vars,
                   read_holders, direct_result>>

\* load_batch: drop(state); sleep(100ms); continue
LoadWait(r) ==
    /\ rd_pc[r] = "locked"
    /\ rd_op[r] = "load"
    /\ ~LoadOutOfRange(rd_n[r], l1_batch_number,
                       MaxL1Batch(l1_batch_number, SealedL1BatchNumber(db)))
    /\ rd_n[r] \notin DOMAIN storage
    /\ read_holders' = read_holders \ {r}
    /\ rd_pc' = [rd_pc EXCEPT ![r] = "acquire"]
    /\ UNCHANGED <<env_vars, sync_vars, rocksdb_version, state_vars,
                   rd_op, rd_n, rd_path, rd_result, direct_result>>

\* load_batch: return Ok(Some(storage_data.batch_data.clone()))
LoadSome(r) ==
    /\ rd_pc[r] = "locked"
    /\ rd_op[r] = "load"
    /\ ~LoadOutOfRange(rd_n[r], l1_batch_number,
                       MaxL1Batch(l1_batch_number, SealedL1BatchNumber(db)))
    /\ rd_n[r] \in DOMAIN storage
    /\ Return(r, ResSome(CachedBatchData(storage, rd_n[r])))
    /\ UNCHANGED <<env_vars, sync_vars, rocksdb_version, state_vars,
                   read_holders, direct_result>>

\* The call returns: its read guard (if any) is dropped and the worker takes
\* the result away.
ReaderRelease(r) ==
    /\ rd_pc[r] = "release"
    /\ read_holders' = read_holders \ {r}
    /\ rd_pc' = [rd_pc EXCEPT ![r] = "idle"]
    /\ rd_op' = [rd_op EXCEPT ![r] = "view"]
    /\ rd_n' = [rd_n EXCEPT ![r] = 0]
    /\ rd_path' = [rd_path EXCEPT ![r] = "none"]
    /\ rd_result' = [rd_result EXCEPT ![r] = NoResult]
    /\ UNCHANGED <<env_vars, sync_vars, rocksdb_version, state_vars, direct_result>>

\* ---------------------------------------------------------- specification
\* The steps of a run in which no store call fails and no stop signal is sent.
SyncStep ==
    \/ SyncCatchup
    \/ SyncLoopTop
    \/ SyncAcquire
    \/ SyncQuery
    \/ SyncSynchronize
    \/ SyncSetWatermark
    \/ SyncRetain
    \/ SyncFill
    \/ SyncFillEnd
    \/ SyncRelease

\* Taking and dropping the read guard.
GuardStep ==
    \/ \E r \in Readers : ReaderAcquire(r)
    \/ \E r \in Readers : ReaderRelease(r)

\* access_storage on the RocksDB branch.
ViewStep ==
    \/ \E r \in Readers : CallCachedView(r)
    \/ \E r \in Readers : ViewBail(r)
    \/ \E r \in Readers : ViewWait(r)
    \/ \E r \in Readers : ViewProceed(r)
    \/ \E r \in Readers : ViewSynchronize(r)

\* load_batch on the RocksDB branch.
LoadStep ==
    \/ \E r \in Readers : CallCachedLoad(r)
    \/ \E r \in Readers : LoadNone(r)
    \/ \E r \in Readers : LoadWait(r)
    \/ \E r \in Readers : LoadSome(r)

ReaderStep ==
    \/ \E r \in Readers : CallDirectView(r)
    \/ \E r \in Readers : CallDirectLoad(r)
    \/ GuardStep
    \/ ViewStep
    \/ LoadStep

\* Store failures, the stop signal and what follows from them.
FaultStep ==
    \/ Stop
    \/ SyncCatchupInterrupted
    \/ SyncCellMissing
    \/ SyncCatchupFail
    \/ SyncLoopStop
    \/ SyncQueryFail
    \/ SyncSynchronizeInterrupted
    \/ SyncSynchronizeFail
    \/ SyncFillFail
    \/ \E r \in Readers : CallDirectFail(r)
    \/ \E r \in Readers : ReaderStoreFail(r)
    \/ \E r \in Readers : ViewInterrupted(r)
    \/ \E r \in Readers : ViewReturnNone(r)
    \/ \E r \in Readers : ViewSynchronizeFail(r)

Next ==
    \/ SealBatch
    \/ AdvanceProcessed
    \/ SyncStep
    \/ ReaderStep
    \/ FaultStep

\* Every behaviour of the task and one worker, all batches alike.
Spec == Init /\ [][Next]_vars

NextData ==
    \/ SealBatchData
    \/ AdvanceProcessed
    \/ SyncStep
    \/ GuardStep
    \/ ViewStep

\* The fault-free behaviours of access_storage on the RocksDB branch, over
\* batches that differ in what they write.
SpecData == InitData /\ [][NextData]_vars

NextReplay ==
    \/ SealBatchReplay
    \/ AdvanceProcessed
    \/ SyncStep
    \/ GuardStep
    \/ LoadStep
    \/ \E r \in Readers : CallDirectLoad(r)

\* The fault-free behaviours of load_batch on both branches, over batches
\* that differ in their miniblocks.
SpecReplay == InitReplay /\ [][NextReplay]_vars

\* ================================================================ claims
\* C1 (Contiguity): with a non-decreasing progress source, whenever the task
\* does not hold the write guard, the keys of storage are exactly
\* l1_batch_number+1 .. l1_batch_number+k for some 0 <= k <= max_batches_to_load.
C1_Contiguity ==
    ~write_locked =>
        \E k \in 0..max_batches_to_load :
            DOMAIN storage = (l1_batch_number + 1)..(l1_batch_number + k)

\* C1 witness: after a prune that left an entry, the window was topped up.
C1_Witness ==
    /\ ~write_locked
    /\ l1_batch_number >= 1
    /\ Cardinality(DOMAIN storage) = max_batches_to_load
    /\ sync_pc = "loop"

\* C2 (I1): whenever a worker holds the read guard, every key of storage is
\* strictly greater than l1_batch_number.
C2_KeysAboveWatermark ==
    read_holders # {} => \A b \in DOMAIN storage : b > l1_batch_number

\* C2 witness: a worker holds the read guard over a non-empty window whose
\* lower entries were pruned.
C2_Witness ==
    /\ read_holders # {}
    /\ l1_batch_number >= 1
    /\ storage # EmptyMap

\* C3 (I3): in every state storage has at most max_batches_to_load entries and
\* no key above l1_batch_number + max_batches_to_load.
C3_BoundedWindow ==
    /\ Cardinality(DOMAIN storage) <= max_batches_to_load
    /\ \A b \in DOMAIN storage : b <= l1_batch_number + max_batches_to_load

\* C3 witness: the window is full although a further batch is sealed.
C3_Witness ==
    /\ Cardinality(DOMAIN storage) = max_batches_to_load
    /\ Len(db) > l1_batch_number + max_batches_to_load
    /\ sync_pc = "release"

\* C4 (monotonic watermark): with a non-decreasing progress source no step
\* decreases l1_batch_number.
C4_MonotonicWatermark == [][l1_batch_number' >= l1_batch_number]_vars

\* C4 witness: the watermark was advanced by two iterations in a row.
C4_Witness ==
    /\ sync_pc = "retain"
    /\ l1_batch_number >= 2
    /\ storage # EmptyMap
    /\ \E b \in DOMAIN storage : b <= l1_batch_number /\ b > 1

\* The value a view for batch n must resolve key k to: the value written by
\* the highest window batch <= n that wrote k, else the value of the snapshot
\* pinned at the watermark.
ExpectedValue(n, k) ==
    LET ws == {b \in DOMAIN storage :
                  b <= n /\ k \in DOMAIN storage[b].storage_diffs}
    IN IF ws = {} THEN DbValueAsOf(db, l1_batch_number, k)
       ELSE storage[Max(ws)].storage_diffs[k].value

HoldsView(r) == rd_pc[r] = "release" /\ rd_result[r].kind = "view"

\* C5 (overlay correctness): a view returned for batch n on the RocksDB branch
\* resolves every key to the value of the highest-numbered window batch <= n
\* that wrote it, and to the pinned snapshot's value when there is none.
C5_OverlayCorrectness ==
    \A r \in Readers :
        HoldsView(r) =>
            \A k \in Keys : ReadValue(db, rd_result[r], k) = ExpectedValue(rd_n[r], k)

\* C5 witness: k1 was written with 1 in window batch n-2 and with 2 in window
\* batch n, batch n-1 did not write it, and the view for n reads 2.
C5_Witness ==
    \E r \in Readers :
        /\ HoldsView(r)
        /\ {rd_n[r] - 2, rd_n[r] - 1, rd_n[r]} \subseteq DOMAIN storage
        /\ "k1" \in DOMAIN storage[rd_n[r] - 2].storage_diffs
        /\ storage[rd_n[r] - 2].storage_diffs["k1"].value = 1
        /\ "k1" \notin DOMAIN storage[rd_n[r] - 1].storage_diffs
        /\ "k1" \in DOMAIN storage[rd_n[r]].storage_diffs
        /\ storage[rd_n[r]].storage_diffs["k1"].value = 2
        /\ ReadValue(db, rd_result[r], "k1") = 2

CachedView(r) == rd_path[r] = "cached" /\ rd_op[r] = "view"

CachedLoad(r) == rd_path[r] = "cached" /\ rd_op[r] = "load"

\* The call of worker r leaves the body of its loop without a store failure.
Decides(r) ==
    /\ rd_pc[r] = "locked"
    /\ rd_pc'[r] # "locked"
    /\ rd_result'[r].kind # "store_error"

\* C6 (pruned-access rejection): once l1_batch_number has been above n, an
\* access_storage call for n on the RocksDB branch is never past its range
\* check and holds no view, and its range check ends it with the out-of-range
\* error (a failed store call aside).
C6_PrunedAccessRejected ==
    /\ [](\A r \in Readers :
            (CachedView(r) /\ rd_n[r] < wm_high) =>
                /\ rd_pc[r] # "synchronize"
                /\ rd_result[r].kind \notin {"view", "interrupted"})
    /\ [][\A r \in Readers :
            (CachedView(r) /\ rd_n[r] < wm_high /\ Decides(r)) =>
                /\ rd_pc'[r] = "release"
                /\ rd_result'[r].kind = "out_of_range"]_vars

\* C6 witness: a batch that was sealed and is now below the watermark was
\* asked for and refused.
C6_Witness ==
    \E r \in Readers :
        /\ CachedView(r)
        /\ rd_pc[r] = "release"
        /\ rd_n[r] >= 1
        /\ rd_n[r] < l1_batch_number
        /\ rd_result[r].kind = "out_of_range"

\* C7: on the RocksDB branch access_storage ends with the out-of-range error
\* exactly when n < l1_batch_number or
\* n > min(l1_batch_number + max_batches_to_load, sealed batch), both read
\* under the read guard; n = l1_batch_number goes on to the snapshot without
\* waiting.
C7_ViewRange ==
    [][\A r \in Readers :
        (CachedView(r) /\ Decides(r)) =>
            /\ (rd_result'[r].kind = "out_of_range") <=>
                   \/ rd_n[r] < l1_batch_number
                   \/ rd_n[r] > Min2(l1_batch_number + max_batches_to_load, Len(db))
            /\ rd_result'[r].kind = "out_of_range" => rd_pc'[r] = "release"
            /\ rd_n[r] = l1_batch_number => rd_pc'[r] = "synchronize"]_vars

\* C7 witness: a sealed batch above the window ceiling was refused.
C7_Witness ==
    \E r \in Readers :
        /\ CachedView(r)
        /\ rd_pc[r] = "release"
        /\ rd_result[r].kind = "out_of_range"
        /\ rd_n[r] > l1_batch_number + max_batches_to_load
        /\ rd_n[r] <= Len(db)

\* C7 second witness state: the watermark batch itself is being served.
C7_WitnessWatermark ==
    \E r \in Readers :
        /\ CachedView(r)
        /\ rd_pc[r] = "synchronize"
        /\ rd_n[r] = l1_batch_number
        /\ l1_batch_number >= 1

\* C8: on the RocksDB branch load_batch returns None from the first pass of
\* its loop that finds n <= l1_batch_number or
\* n > min(l1_batch_number + max_batches_to_load, sealed batch); so it does
\* for n = l1_batch_number + max_batches_to_load + 1.
C8_LoadNone ==
    [][\A r \in Readers :
        (/\ CachedLoad(r)
         /\ Decides(r)
         /\ \/ rd_n[r] <= l1_batch_number
            \/ rd_n[r] > Min2(l1_batch_number + max_batches_to_load, Len(db))) =>
            /\ rd_pc'[r] = "release"
            /\ rd_result'[r].kind = "none"]_vars

\* C8 witness: load_batch(l1_batch_number + max_batches_to_load + 1) returned
\* None although that batch is sealed.
C8_Witness ==
    \E r \in Readers :
        /\ CachedLoad(r)
        /\ rd_pc[r] = "release"
        /\ rd_result[r].kind = "none"
        /\ rd_n[r] = l1_batch_number + max_batches_to_load + 1
        /\ rd_n[r] <= Len(db)

HoldsCachedSome(r) ==
    CachedLoad(r) /\ rd_pc[r] = "release" /\ rd_result[r].kind = "some"

\* C9: whenever load_batch returns Some(data) on the RocksDB branch, n is a
\* key of storage and data is the batch_data stored under it.
C9_LoadFromWindow ==
    \A r \in Readers :
        HoldsCachedSome(r) =>
            /\ rd_n[r] \in DOMAIN storage
            /\ rd_result[r].batch_data = storage[rd_n[r]].batch_data

\* C9 witness: the batch returned is not the first one of the window.
C9_Witness ==
    \E r \in Readers :
        /\ HoldsCachedSome(r)
        /\ rd_n[r] > l1_batch_number + 1
        /\ storage[rd_n[r]].batch_data # storage[l1_batch_number + 1].batch_data

\* C10 (bootstrap equivalence): the value load_batch returned for batch n on
\* the Postgres branch is the value it returns for n on the RocksDB branch
\* once n is in the window.
C10_BootstrapEquivalence ==
    \A r \in Readers :
        (HoldsCachedSome(r) /\ direct_result.n = rd_n[r]) =>
            rd_result[r].batch_data = direct_result.data

\* C10 witness: a batch whose miniblocks are <<2, 1>> was returned on both
\* branches.
C10_Witness ==
    \E r \in Readers :
        /\ HoldsCachedSome(r)
        /\ direct_result.n = rd_n[r]
        /\ direct_result.data.miniblocks = <<2, 1>>
        /\ rd_result[r].batch_data.miniblocks = <<2, 1>>

\* ------------------------------------------------- the end-to-end scenario
\* max_batches_to_load = 5, the loader reports batch 10, batches 1..13 are
\* sealed.
InitScenario ==
    /\ db = [i \in 1..13 |-> CHOOSE c \in PlainContents : TRUE]
    /\ processed = 10
    /\ InitRest(5)

\* Batch 14 is sealed once an iteration of run has completed.
SealFourteen ==
    /\ sync_pc = "loop"
    /\ l1_batch_number = 10
    /\ Len(db) = 13
    /\ db' = Append(db, CHOOSE c \in PlainContents : TRUE)
    /\ UNCHANGED <<outside_vars, processed, stop, rocksdb_cell,
                   rocksdb_version, catchup_target, state_vars, write_locked,
                   read_holders, sync_pc, sync_result, sync_locals, rd_vars>>

\* Workers load the batches around the window.
CallScenarioLoad(r) == CallCachedLoadIn(r, 10..15)

NextScenario ==
    \/ SealFourteen
    \/ SyncStep
    \/ GuardStep
    \/ \E r \in Readers : CallScenarioLoad(r)
    \/ \E r \in Readers : LoadNone(r)
    \/ \E r \in Readers : LoadWait(r)
    \/ \E r \in Readers : LoadSome(r)

SpecScenario == InitScenario /\ [][NextScenario]_vars

\* C11 (end-to-end scenario): with max_batches_to_load = 5, the loader at 10
\* and batches 11..13 sealed, an iteration ends with the window {11, 12, 13}
\* and it stays so until batch 14 is sealed and loaded; load_batch(14) returns
\* None while 14 is not sealed; the iteration run after batch 14 is sealed
\* ends with the window {11, 12, 13, 14}.
C11_Scenario ==
    /\ (sync_pc = "release" /\ Len(db) = 13) => DOMAIN storage = {11, 12, 13}
    /\ (l1_batch_number = 10 /\ ~write_locked /\ Len(db) = 13) =>
            DOMAIN storage = {11, 12, 13}
    /\ \A r \in Readers :
        (rd_pc[r] = "release" /\ rd_op[r] = "load" /\ rd_n[r] = 14 /\ Len(db) = 13) =>
            rd_result[r].kind = "none"
    /\ (sync_pc = "release" /\ Len(db) = 14) => DOMAIN storage = {11, 12, 13, 14}

\* C11 witness: the second iteration is over, and a worker that asked for
\* batch 14 got it from the window.
C11_Witness ==
    /\ sync_pc = "loop"
    /\ Len(db) = 14
    /\ DOMAIN storage = {11, 12, 13, 14}
    /\ \E r \in Readers : HoldsCachedSome(r) /\ rd_n[r] = 14

\* ------------------------------------------------------------ two workers
\* Both workers call into the storage from the start.
InitPair ==
    /\ db \in UNION {[1..n -> PlainContents] : n \in 0..1}
    /\ processed \in 0..Len(db)
    /\ InitWorkers(MaxWindow, Readers)

NextPair ==
    \/ SealBatch
    \/ AdvanceProcessed
    \/ SyncStep
    \/ GuardStep
    \/ ViewStep
    \/ LoadStep

\* The fault-free behaviours of the task and two concurrent workers on the
\* RocksDB branch.
SpecPair == InitPair /\ [][NextPair]_vars

\* The task is between state.write().await and the drop of its guard.
InWriteSection ==
    sync_pc \in {"query", "synchronize", "set_watermark", "retain", "fill", "release"}

\* The call of worker r is between state.read().await and the drop of its
\* guard.
InReadSection(r) == rd_pc[r] \in {"locked", "synchronize", "sync_none", "release"}

\* C12 (mutual exclusion): the write guard is held exactly while the task is
\* in its write section, the read guards are held exactly by the calls in
\* their read sections, and no read section overlaps the write section.
C12_MutualExclusion ==
    /\ write_locked <=> InWriteSection
    /\ read_holders = {r \in Readers : InReadSection(r)}
    /\ ~(InWriteSection /\ \E r \in Readers : InReadSection(r))

\* C12 witness: two read sections overlap, one of access_storage and one of
\* load_batch, while the task waits for the write guard.
C12_Witness ==
    /\ sync_pc = "acquire"
    /\ InReadSection("w1") /\ rd_op["w1"] = "view"
    /\ InReadSection("w2") /\ rd_op["w2"] = "load"

\* C13 (no watermark without its cache content): whenever a call on the
\* RocksDB branch holds the read guard, the batch RocksDB was last
\* synchronized to is state.l1_batch_number, also between the end of the
\* catch-up and the first iteration of run.
C13_WatermarkMatchesCache ==
    \A r \in Readers :
        (rd_path[r] = "cached" /\ r \in read_holders) =>
            rocksdb_version = l1_batch_number

\* The calls of RocksdbStorageBuilder::synchronize in progress: the one of
\* run and those of access_storage_inner.
SynchronizeCallers ==
    {r \in Readers : rd_pc[r] = "synchronize"} \cup
        (IF sync_pc = "synchronize" THEN {"task"} ELSE {})

\* C14 (serialized catch-up calls): at most one call of
\* RocksdbStorageBuilder::synchronize is in progress at any time, whether it
\* was made by run or by access_storage.
C14_SynchronizeSerialized == Cardinality(SynchronizeCallers) <= 1

\* C15 (single writer): state.l1_batch_number and state.storage change only
\* in a step of run taken inside its write section, with the write guard held
\* before and after; every step of access_storage or load_batch, on either
\* branch and with any outcome, leaves them unchanged.
C15_SingleWriter ==
    /\ [][(l1_batch_number' # l1_batch_number \/ storage' # storage) =>
            /\ write_locked /\ write_locked'
            /\ InWriteSection
            /\ sync_pc \in {"set_watermark", "retain", "fill"}
            /\ rd_vars' = rd_vars]_vars
    /\ [][rd_vars' # rd_vars =>
            (l1_batch_number' = l1_batch_number /\ storage' = storage)]_vars

\* C15 witness: the task has moved the watermark and is filling the window
\* under the write guard, while a call that had to wait for its batch is
\* about to take the read guard again.
C15_Witness ==
    /\ write_locked
    /\ sync_pc = "fill"
    /\ l1_batch_number > 0
    /\ DOMAIN storage # {}
    /\ \E r \in Readers : rd_pc[r] = "acquire" /\ rd_path[r] = "cached"

\* ------------------------------------------------------------ cancellation
\* The stop signal with no store failures: the task and the calls of
\* access_storage on the RocksDB branch.
NextCancel ==
    \/ SealBatch
    \/ AdvanceProcessed
    \/ Stop
    \/ SyncStep
    \/ SyncCatchupInterrupted
    \/ SyncCellMissing
    \/ SyncLoopStop
    \/ SyncSynchronizeInterrupted
    \/ GuardStep
    \/ ViewStep
    \/ \E r \in Readers : ViewInterrupted(r)
    \/ \E r \in Readers : ViewReturnNone(r)

\* What the task does next, once it has been spawned.
TaskMove ==
    \/ SyncStep
    \/ SyncCatchupInterrupted
    \/ SyncCellMissing
    \/ SyncLoopStop
    \/ SyncSynchronizeInterrupted

\* What a call of access_storage does next, once it has been made.
ReaderMove(r) ==
    \/ ReaderAcquire(r)
    \/ ViewBail(r)
    \/ ViewWait(r)
    \/ ViewProceed(r)
    \/ ViewSynchronize(r)
    \/ ViewInterrupted(r)
    \/ ViewReturnNone(r)
    \/ ReaderRelease(r)

\* The tokio runtime keeps polling spawned tasks and pending calls, timers
\* fire, and its RwLock hands out guards in FIFO order.
Fairness ==
    /\ WF_vars(TaskMove)
    /\ SF_vars(SyncAcquire)
    /\ \A r \in Readers : WF_vars(ReaderMove(r)) /\ SF_vars(ReaderAcquire(r))

SpecCancel == Init /\ [][NextCancel]_vars /\ Fairness

\* The call of worker r is in the loop of access_storage_inner for a batch
\* that is in range, is not the watermark and is not in the window.
Polling(r) ==
    /\ rd_op[r] = "view"
    /\ rd_path[r] = "cached"
    /\ rd_pc[r] \in {"acquire", "locked"}
    /\ ~ViewOutOfRange(rd_n[r], l1_batch_number,
                       MaxL1Batch(l1_batch_number, SealedL1BatchNumber(db)))
    /\ ViewMustWait(rd_n[r], l1_batch_number, storage)

\* C16 (facade cancellation): once the stop signal is set, a call of
\* access_storage that is polling for a batch not yet in the window
\* eventually returns Ok(None), the interrupted result.
C16_FacadeCancellation ==
    \A r \in Readers :
        (stop /\ Polling(r)) ~>
            (rd_pc[r] = "release" /\ rd_result[r].kind = "interrupted")

\* C17 (bootstrap cancellation): when the catch-up has observed the stop
\* signal and left the cell unset, run returns Ok(()) without entering its
\* loop and without touching state.l1_batch_number or state.storage.
C17_BootstrapCancellation ==
    [][(sync_pc = "cell" /\ ~rocksdb_cell /\ sync_pc' # "cell") =>
            /\ sync_pc' = "done"
            /\ sync_result' = "ok"
            /\ l1_batch_number' = l1_batch_number
            /\ storage' = storage]_vars

\* C18 (no partial commit): from the moment an iteration of run asks for the
\* write guard until its synchronize call returns, state.l1_batch_number and
\* state.storage do not change; when that call reports an interruption or an
\* error, run drops the write guard and returns, Ok(()) only if the stop
\* signal is set, with both still unchanged.
C18_NoPartialCommit ==
    /\ [][(sync_pc \in {"acquire", "query", "synchronize"}) =>
            (l1_batch_number' = l1_batch_number /\ storage' = storage)]_vars
    /\ [][(sync_pc = "synchronize" /\ sync_pc' \notin {"synchronize", "set_watermark"}) =>
            /\ sync_pc' = "done"
            /\ ~write_locked'
            /\ sync_result' \in {"ok", "err"}
            /\ sync_result' = "ok" => stop]_vars

\* C18 witness: the task is in the synchronize call of an iteration that
\* would move the watermark and prune the window, and the stop signal is set.
C18_Witness ==
    /\ sync_pc = "synchronize"
    /\ write_locked
    /\ stop
    /\ l1_batch_number > 0
    /\ latest_processed_batch > l1_batch_number
    /\ latest_processed_batch \in DOMAIN storage

\* C19 (upstream failure stops the task): when a Postgres call fails while
\* run is loading batch fill_next, run returns the error and drops the write
\* guard, nothing is inserted by that step, no batch from fill_next up is in
\* the window, and the window is l1_batch_number+1 .. fill_next-1.
C19_UpstreamFailure ==
    [][(sync_pc = "fill" /\ sync_pc' = "done") =>
            /\ sync_result' = "err"
            /\ ~write_locked'
            /\ storage' = storage
            /\ l1_batch_number' = l1_batch_number
            /\ \A b \in DOMAIN storage' : b < fill_next
            /\ DOMAIN storage' = (l1_batch_number' + 1)..(fill_next - 1)]_vars

\* C19 witness: the task has inserted a batch and is loading the next one,
\* which is sealed, so that only a failure can keep it out of the window.
C19_Witness ==
    /\ sync_pc = "fill"
    /\ fill_next <= max_desired
    /\ fill_next <= Len(db)
    /\ fill_next - 1 \in DOMAIN storage

\* ------------------------------------------------------ a constant loader
\* The storage is built over any sealed history, and the loader reports the
\* same processed batch for the whole run.
InitSteady ==
    /\ db \in UNION {[1..n -> PlainContents] : n \in 0..MaxBatch}
    /\ processed \in 0..Len(db)
    /\ InitRest(MaxWindow)

NextSteady ==
    \/ SealBatch
    \/ SyncStep
    \/ GuardStep
    \/ ViewStep

SpecSteady == InitSteady /\ [][NextSteady]_vars

\* C20 (out-of-range is not transient): while the loader keeps reporting
\* batch processed and batch processed+1 is sealed, a call of
\* access_storage(processed+1) on the RocksDB branch does not end in the
\* out-of-range error, also before the first iteration of run.
C20_NoTransientOutOfRange ==
    [][\A r \in Readers :
        (/\ CachedView(r)
         /\ rd_n[r] = processed + 1
         /\ processed + 1 <= SealedL1BatchNumber(db)
         /\ Decides(r)) =>
            rd_result'[r].kind # "out_of_range"]_vars

\* ------------------------------------------------- ZkSyncTree (domain.rs)
TreeValues == {"v1", "v2"}

\* TreeLogEntry: Inserted, Updated { previous_value, .. }, and the two read
\* variants, which extract_writes treats alike.
TreeLogEntries ==
    {[kind |-> "Inserted", previous_value |-> "none"],
     [kind |-> "Read", previous_value |-> "none"]} \cup
    {[kind |-> "Updated", previous_value |-> v] : v \in TreeValues}

\* TreeEntry<StorageKey> { key, value, leaf_index }
TreeEntries ==
    {[key |-> "k1", value |-> "v1", leaf_index |-> 1],
     [key |-> "k2", value |-> "v1", leaf_index |-> 2],
     [key |-> "k1", value |-> "v2", leaf_index |-> 2]}

SeqsUpTo(S, n) == UNION {[1..m -> S] : m \in 0..n}

\* StorageKey::hashed_key_u256: an injective image of the key.
hashed_key_u256(k) == <<"hashed_key_u256", k>>

\* InitialStorageWrite { index, key, value }
InitialStorageWrite(input_entry) ==
    [index |-> input_entry.leaf_index,
     key |-> hashed_key_u256(input_entry.key),
     value |-> input_entry.value]

\* RepeatedStorageWrite { index, value }
RepeatedStorageWrite(input_entry) ==
    [index |-> input_entry.leaf_index, value |-> input_entry.value]

\* Mutant: a no-op update is reported as a repeated write.
PushRepeated_always(rw, log_entry, input_entry) ==
    Append(rw, RepeatedStorageWrite(input_entry))

\* if prev_value_hash != input_entry.value { repeated_writes.push(..) }
PushRepeated(rw, log_entry, input_entry) ==
    IF log_entry.previous_value # input_entry.value
    THEN Append(rw, RepeatedStorageWrite(input_entry))
    ELSE rw

\* for (log_entry, input_entry) in logs.zip(entries) { match log_entry { .. } }
RECURSIVE ExtractWritesLoop(_, _, _, _)
ExtractWritesLoop(logs, entries, iw, rw) ==
    IF logs = <<>> \/ entries = <<>>
    THEN <<iw, rw>>
    ELSE LET log_entry == Head(logs)
             input_entry == Head(entries)
         IN  CASE log_entry.kind = "Inserted" ->
                    ExtractWritesLoop(Tail(logs), Tail(entries),
                                      Append(iw, InitialStorageWrite(input_entry)), rw)
               [] log_entry.kind = "Updated" ->
                    ExtractWritesLoop(Tail(logs), Tail(entries), iw,
                                      PushRepeated(rw, log_entry, input_entry))
               [] OTHER ->
                    ExtractWritesLoop(Tail(logs), Tail(entries), iw, rw)

extract_writes(logs, entries) == ExtractWritesLoop(logs, entries, <<>>, <<>>)

\* A tree from new_with_mode, and the arguments extract_writes will get.
InitTree ==
    /\ db = <<>>
    /\ processed = 0
    /\ InitStorage(MaxWindow, {})
    /\ pruning_enabled = FALSE
    /\ pruners = 0
    /\ pruner_call = "none"
    /\ ew_logs \in SeqsUpTo(TreeLogEntries, MaxLogs)
    /\ ew_entries \in SeqsUpTo(TreeEntries, MaxLogs)
    /\ ew_pc = "input"
    /\ initial_writes = <<>>
    /\ repeated_writes = <<>>

storage_layer_vars ==
    <<max_batches_to_load, db, processed, stop, rocksdb_cell, rocksdb_version,
      catchup_target, state_vars, write_locked, read_holders, sync_pc,
      sync_result, sync_locals, rd_vars>>

\* Mutant: pruner() without its assertion.
Pruner_unchecked ==
    /\ pruning_enabled' = TRUE
    /\ pruners' = pruners + 1
    /\ pruner_call' = "returned"
    /\ UNCHANGED <<storage_layer_vars, ew_logs, ew_entries, ew_pc,
                   initial_writes, repeated_writes>>

\* pruner(): the assertion passes, pruning_enabled is set and
\* MerkleTreePruner::new(db) is returned.
Pruner ==
    /\ ~pruning_enabled
    /\ pruning_enabled' = TRUE
    /\ pruners' = pruners + 1
    /\ pruner_call' = "returned"
    /\ UNCHANGED <<storage_layer_vars, ew_logs, ew_entries, ew_pc,
                   initial_writes, repeated_writes>>

\* pruner(): assert!(!self.pruning_enabled, ..) fails and the call panics.
PrunerPanic ==
    /\ pruning_enabled
    /\ pruner_call' = "panicked"
    /\ UNCHANGED <<storage_layer_vars, pruning_enabled, pruners, ew_logs,
                   ew_entries, ew_pc, initial_writes, repeated_writes>>

\* let (initial_writes, repeated_writes) = Self::extract_writes(logs, kvs)
ExtractWrites ==
    /\ ew_pc = "input"
    /\ initial_writes' = extract_writes(ew_logs, ew_entries)[1]
    /\ repeated_writes' = extract_writes(ew_logs, ew_entries)[2]
    /\ ew_pc' = "done"
    /\ UNCHANGED <<storage_layer_vars, pruning_enabled, pruners, pruner_call,
                   ew_logs, ew_entries>>

NextTree ==
    \/ Pruner
    \/ PrunerPanic
    \/ ExtractWrites

\* One ZkSyncTree instance.
SpecTree == InitTree /\ [][NextTree]_vars

\* C21 (one pruner per tree): pruner() has returned at most one pruner; it
\* returns one exactly when pruning_enabled was not set, and sets it; once it
\* is set every call panics and hands out nothing.
C21_SinglePruner ==
    /\ [](pruners <= 1 /\ (pruning_enabled <=> pruners = 1))
    /\ [][pruners' # pruners =>
            (~pruning_enabled /\ pruning_enabled' /\ pruners' = pruners + 1
             /\ pruner_call' = "returned")]_vars
    /\ [][(pruning_enabled /\ pruner_call' # pruner_call) =>
            (pruner_call' = "panicked" /\ pruners' = pruners /\ pruning_enabled')]_vars

\* C21 witness: the second call of pruner() on the tree has panicked.
C21_Witness ==
    /\ pruners = 1
    /\ pruning_enabled
    /\ pruner_call = "panicked"

\* The positions extract_writes pairs up.
ZipLen == Min2(Len(ew_logs), Len(ew_entries))

InsertedAt == {i \in 1..ZipLen : ew_logs[i].kind = "Inserted"}

ChangedAt ==
    {i \in 1..ZipLen : /\ ew_logs[i].kind = "Updated"
                       /\ ew_logs[i].previous_value # ew_entries[i].value}

NoOpAt ==
    {i \in 1..ZipLen : /\ ew_logs[i].kind = "Updated"
                       /\ ew_logs[i].previous_value = ew_entries[i].value}

\* The j-th smallest member of a set of numbers.
Nth(S, j) == CHOOSE x \in S : Cardinality({y \in S : y < x}) = j - 1

\* C22 (write classification): extract_writes returns one initial write per
\* Inserted log, one repeated write per Updated log whose previous value
\* differs from the written value and nothing for the others, each list in
\* the order of the inputs.
C22_WriteClassification ==
    ew_pc = "done" =>
        /\ Len(initial_writes) = Cardinality(InsertedAt)
        /\ \A j \in 1..Len(initial_writes) :
            LET e == ew_entries[Nth(InsertedAt, j)]
            IN  initial_writes[j] =
                    [index |-> e.leaf_index, key |-> hashed_key_u256(e.key),
                     value |-> e.value]
        /\ Len(repeated_writes) = Cardinality(ChangedAt)
        /\ \A j \in 1..Len(repeated_writes) :
            LET e == ew_entries[Nth(ChangedAt, j)]
            IN  repeated_writes[j] = [index |-> e.leaf_index, value |-> e.value]

\* C22 witness: an insertion, a changing update and a no-op update were
\* classified.
C22_Witness ==
    /\ ew_pc = "done"
    /\ InsertedAt # {}
    /\ ChangedAt # {}
    /\ NoOpAt # {}
    /\ initial_writes # <<>>
    /\ repeated_writes # <<>>

\* ------------------------------------------------- batches with gaps
\* The task alone, over a Postgres in which some batch numbers have no
\* miniblock while later ones have.
InitGap ==
    /\ db \in UNION {[1..n -> GapContents] : n \in 0..MaxBatch}
    /\ processed \in 0..Len(db)
    /\ InitWorkers(DataWindow, {})

SealBatchGap == SealBatchWith(GapContents)

NextGap ==
    \/ SealBatchGap
    \/ AdvanceProcessed
    \/ SyncStep

SpecGap == InitGap /\ [][NextGap]_vars

\* The smallest batch number above n that load_batch_data returns None for.
FirstGapAbove(d, n) ==
    CHOOSE g \in (n + 1)..(Len(d) + 1) :
        /\ ~load_batch_data(d, g).some
        /\ \A x \in (n + 1)..(g - 1) : load_batch_data(d, x).some

\* C23 (iteration postcondition): what survives the pruning of an iteration
\* with loader value L can be loaded; every insertion is of a batch below the
\* first gap g above L; and when the fill loop ends, l1_batch_number = L and
\* the window is exactly L+1 .. min(L + max_batches_to_load, g-1).
C23_IterationPostcondition ==
    /\ [][(sync_pc = "retain" /\ sync_pc' = "fill") =>
            /\ l1_batch_number' = latest_processed_batch
            /\ DOMAIN storage' =
                (latest_processed_batch + 1)..(fill_next' - 1)
            /\ \A b \in DOMAIN storage' : load_batch_data(db, b).some]_vars
    /\ [][(sync_pc = "fill" /\ storage' # storage) =>
            /\ DOMAIN storage' = DOMAIN storage \cup {fill_next}
            /\ fill_next < FirstGapAbove(db, latest_processed_batch)]_vars
    /\ [][(sync_pc = "fill" /\ sync_pc' = "release") =>
            /\ l1_batch_number' = latest_processed_batch
            /\ DOMAIN storage' =
                (latest_processed_batch + 1)..
                    Min2(latest_processed_batch + max_batches_to_load,
                         FirstGapAbove(db, latest_processed_batch) - 1)]_vars

\* C23 witness: an iteration has ended with a window that stops below a gap,
\* although the batch after the gap can be loaded and is within
\* l1_batch_number + max_batches_to_load.
C23_Witness ==
    /\ sync_pc = "release"
    /\ DOMAIN storage # {}
    /\ \E g \in 1..Len(db) :
        /\ g = FirstGapAbove(db, l1_batch_number)
        /\ load_batch_data(db, g + 1).some
        /\ g + 1 <= l1_batch_number + max_batches_to_load
        /\ DOMAIN storage = (l1_batch_number + 1)..(g - 1)

\* The window keys an access_storage call for worker r's batch covers.
CoveredKeys(r) == {b \in DOMAIN storage : b <= rd_n[r]}

\* C24 (what a view holds): when access_storage(n) on the RocksDB branch
\* returns a view, n is state.l1_batch_number or a key of state.storage, and
\* the storage_diffs and factory_deps of the view are those of the window
\* entries with key <= n, one per entry, by increasing batch number; for
\* n = l1_batch_number there are none.
C24_ViewOverlays ==
    \A r \in Readers :
        (HoldsView(r) /\ CachedView(r)) =>
            /\ rd_n[r] = l1_batch_number \/ rd_n[r] \in DOMAIN storage
            /\ Len(rd_result[r].storage_diffs) = Cardinality(CoveredKeys(r))
            /\ Len(rd_result[r].factory_deps) = Cardinality(CoveredKeys(r))
            /\ \A i \in 1..Cardinality(CoveredKeys(r)) :
                /\ rd_result[r].storage_diffs[i] =
                        storage[Nth(CoveredKeys(r), i)].storage_diffs
                /\ rd_result[r].factory_deps[i] =
                        storage[Nth(CoveredKeys(r), i)].factory_deps
            /\ rd_n[r] = l1_batch_number =>
                (rd_result[r].storage_diffs = <<>> /\ rd_result[r].factory_deps = <<>>)

\* C24 witness: a view for a window batch holds two overlays that differ,
\* and the window has a batch above it that the view leaves out.
C24_Witness ==
    \E r \in Readers :
        /\ HoldsView(r)
        /\ CachedView(r)
        /\ rd_n[r] \in DOMAIN storage
        /\ rd_n[r] + 1 \in DOMAIN storage
        /\ Len(rd_result[r].storage_diffs) = 2
        /\ rd_result[r].storage_diffs[1] # rd_result[r].storage_diffs[2]
        /\ rd_result[r].factory_deps[1] # rd_result[r].factory_deps[2]

\* C25 (consistent view): from the range check of access_storage_inner to its
\* return the call holds the read guard, and no step in between changes
\* state.l1_batch_number or state.storage; the view it returns is pinned at
\* the l1_batch_number W of that moment and its overlays are those of the
\* batches W+1 .. n.
C25_ConsistentView ==
    /\ [](\A r \in Readers :
            InReadSection(r) => (r \in read_holders /\ ~write_locked))
    /\ [][\A r \in Readers :
            (CachedView(r) /\ InReadSection(r)) =>
                (l1_batch_number' = l1_batch_number /\ storage' = storage)]_vars
    /\ [](\A r \in Readers :
            (HoldsView(r) /\ CachedView(r)) =>
                /\ rd_result[r].snapshot = l1_batch_number
                /\ CoveredKeys(r) = (l1_batch_number + 1)..rd_n[r]
                /\ Len(rd_result[r].storage_diffs) = rd_n[r] - l1_batch_number)

\* C25 witness: a view over a window batch has been built after the watermark
\* moved, while the task is waiting for the write guard.
C25_Witness ==
    \E r \in Readers :
        /\ HoldsView(r)
        /\ CachedView(r)
        /\ l1_batch_number > 0
        /\ rd_n[r] > l1_batch_number
        /\ sync_pc = "acquire"
        /\ processed > l1_batch_number

\* C26 (interrupted snapshot call): when the synchronize call made by
\* access_storage_inner returns None, the call returns Ok(None), the
\* interrupted result, and nothing else; that result is only ever returned
\* after the stop signal.
C26_InterruptedView ==
    /\ [][\A r \in Readers :
            (rd_pc[r] = "sync_none" /\ rd_pc'[r] # "sync_none") =>
                (rd_pc'[r] = "release" /\ rd_result'[r].kind = "interrupted")]_vars
    /\ [](\A r \in Readers :
            (rd_pc[r] = "release" /\ rd_result[r].kind = "interrupted") =>
                (stop /\ CachedView(r)))

\* C26 witness: a call for a batch of the window was interrupted in its
\* synchronize call and returned Ok(None).
C26_Witness ==
    \E r \in Readers :
        /\ rd_pc[r] = "release"
        /\ rd_result[r].kind = "interrupted"
        /\ rd_n[r] \in DOMAIN storage

\* Worker r makes a call of operation op in this step.
Calls(r, op) == rd_pc[r] = "idle" /\ rd_pc'[r] # "idle" /\ rd_op'[r] = op

\* C27 (view before the cell is set): while rocksdb_cell is unset,
\* access_storage(n) for any n returns the Postgres-backed storage for n (or
\* the error of a failed Postgres call) in the step it is made: it takes no
\* guard, applies no range check and does not wait.
C27_DirectView ==
    /\ [][\A r \in Readers :
            (Calls(r, "view") /\ ~rocksdb_cell) =>
                /\ rd_path'[r] = "direct"
                /\ rd_pc'[r] = "release"
                /\ \/ rd_result'[r] = ResPg(rd_n'[r])
                   \/ rd_result'[r].kind = "store_error"
                /\ read_holders' = read_holders
                /\ write_locked' = write_locked]_vars
    /\ [](\A r \in Readers :
            rd_path[r] = "direct" =>
                (r \notin read_holders /\ rd_pc[r] = "release"))

\* C27 witness: a view was returned for a batch that is neither sealed nor
\* within l1_batch_number + max_batches_to_load.
C27_Witness ==
    \E r \in Readers :
        /\ rd_path[r] = "direct"
        /\ rd_op[r] = "view"
        /\ rd_result[r].kind = "pg"
        /\ rd_result[r].snapshot = rd_n[r]
        /\ rd_n[r] > Len(db)
        /\ rd_n[r] > l1_batch_number + max_batches_to_load

\* C28 (load before the cell is set): while rocksdb_cell is unset,
\* load_batch(n) returns in the step it is made, taking no guard: None
\* exactly when batch n has no first miniblock, otherwise the batch env for
\* n, the system env and the miniblocks of n in Postgres order, whatever the
\* loader reports and whatever max_batches_to_load is.
C28_DirectLoad ==
    [][\A r \in Readers :
        (Calls(r, "load") /\ ~rocksdb_cell) =>
            /\ rd_path'[r] = "direct"
            /\ rd_pc'[r] = "release"
            /\ read_holders' = read_holders
            /\ IF load_first_miniblock_in_batch(db, rd_n'[r])
               THEN /\ rd_result'[r].kind = "some"
                    /\ rd_result'[r].batch_data.l1_batch_env.number = rd_n'[r]
                    /\ rd_result'[r].batch_data.system_env.gas_limit = U32Max
                    /\ rd_result'[r].batch_data.miniblocks =
                            BatchContent(db, rd_n'[r]).miniblocks
               ELSE rd_result'[r].kind = "none"]_vars

\* C28 witness: a batch above max_batches_to_load, already processed by the
\* loader, was loaded from Postgres with its two miniblocks.
C28_Witness ==
    \E r \in Readers :
        /\ rd_path[r] = "direct"
        /\ rd_op[r] = "load"
        /\ rd_result[r].kind = "some"
        /\ rd_n[r] > l1_batch_number + max_batches_to_load
        /\ rd_n[r] <= processed
        /\ Len(rd_result[r].batch_data.miniblocks) = 2

\* state.l1_batch_number and state.storage have the values new gave them.
StateAsBuilt == l1_batch_number = 0 /\ storage = EmptyMap

\* C29 (initial state): State is built with l1_batch_number = 0 and an empty
\* storage; it is so during the catch-up, and the first step that changes it
\* is a step of run after the synchronize call of that iteration succeeded.
C29_InitialState ==
    /\ [](sync_pc \in {"catchup", "cell"} => StateAsBuilt)
    /\ [][(StateAsBuilt /\ ~StateAsBuilt') =>
            sync_pc \in {"set_watermark", "retain", "fill"}]_vars
    /\ [][(sync_pc # "set_watermark" /\ sync_pc' = "set_watermark") =>
            /\ sync_pc = "synchronize"
            /\ rocksdb_version' = latest_processed_batch]_vars

\* C29 witness: the catch-up is over, batches are sealed and processed, run
\* is in the synchronize call of its first iteration, and State is still as
\* built.
C29_Witness ==
    /\ sync_pc = "synchronize"
    /\ StateAsBuilt
    /\ wm_high = 0
    /\ latest_processed_batch > 0
    /\ rocksdb_version > 0
    /\ Len(db) > latest_processed_batch

\* C30 (step order): in every iteration run asks the loader for
\* latest_processed_batch before it takes the write guard, so that the guard
\* is not held, and no worker is kept from its read guard, while that query
\* is in flight.
C30_QueryBeforeLock ==
    sync_pc = "query" =>
        /\ ~write_locked
        /\ \A r \in Readers : rd_pc[r] = "acquire" => ENABLED ReaderAcquire(r)

\* ----------------------------------------------------- window discipline
\* A step inserts one entry above the window: the new key is one more than
\* the maximum key (than the watermark when the window is empty) and the
\* entries already stored are kept as they are.
AppendsAbove ==
    /\ DOMAIN storage \subseteq DOMAIN storage'
    /\ DOMAIN storage' \ DOMAIN storage =
           {MaxPresent(storage, l1_batch_number) + 1}
    /\ \A b \in DOMAIN storage : storage'[b] = storage[b]

\* A step removes entries from below: every removed key is at most the new
\* watermark and the entries that stay are kept as they are.
PrunesBelow ==
    /\ DOMAIN storage' \subseteq DOMAIN storage
    /\ \A b \in DOMAIN storage \ DOMAIN storage' : b <= l1_batch_number'
    /\ \A b \in DOMAIN storage' : storage'[b] = storage[b]

\* C31 (append above, prune below): every step that changes the window
\* either inserts one entry at the key after the maximum key (after the
\* watermark when the window is empty) or removes only keys at or below the
\* new watermark; the entry of a batch is never replaced or modified while
\* it is stored.
C31_AppendAbovePruneBelow ==
    [][(storage' # storage) => (AppendsAbove \/ PrunesBelow)]_vars

\* C31 witness: the fill loop has inserted two entries, the watermark has
\* then moved onto the lower one, and retain is about to drop it and keep
\* the upper one.
C31_Witness ==
    /\ sync_pc = "retain"
    /\ l1_batch_number = latest_processed_batch
    /\ \E b \in DOMAIN storage : b <= l1_batch_number
    /\ \E b \in DOMAIN storage : b > l1_batch_number

\* ------------------------------------------------------ load_batch liveness
\* The task iterates without a failure or a stop signal while a worker calls
\* load_batch on the RocksDB branch.
NextLive ==
    \/ SealBatch
    \/ AdvanceProcessed
    \/ SyncStep
    \/ GuardStep
    \/ LoadStep

\* What a call of load_batch does next, once it has been made.
LoadMove(r) ==
    \/ ReaderAcquire(r)
    \/ LoadNone(r)
    \/ LoadWait(r)
    \/ LoadSome(r)
    \/ ReaderRelease(r)

\* The tokio runtime keeps polling the task and the pending call, the sleep
\* of the call ends, and the RwLock hands out its guards in FIFO order.
FairLive ==
    /\ WF_vars(SyncStep)
    /\ SF_vars(SyncAcquire)
    /\ \A r \in Readers : WF_vars(LoadMove(r)) /\ SF_vars(ReaderAcquire(r))

SpecLive == Init /\ [][NextLive]_vars /\ FairLive

\* C32 (load_batch liveness): while the task keeps iterating without an
\* error and the runtime and the lock are fair, a call of load_batch on the
\* RocksDB branch that is in its loop eventually returns, with Some or None.
C32_LoadBatchReturns ==
    \A r \in Readers :
        (CachedLoad(r) /\ rd_pc[r] \in {"acquire", "locked"})
            ~> (CachedLoad(r) /\ rd_pc[r] = "release"
                /\ rd_result[r].kind \in {"some", "none"})

\* C32 witness: a call of load_batch is between two rounds of its loop for a
\* sealed batch in range that is not in the window yet, and the fill loop of
\* the task is about to load that batch.
C32_Witness ==
    \E r \in Readers :
        /\ CachedLoad(r)
        /\ rd_pc[r] = "acquire"
        /\ rd_n[r] > l1_batch_number
        /\ rd_n[r] <= SealedL1BatchNumber(db)
        /\ rd_n[r] \notin DOMAIN storage
        /\ sync_pc = "fill"
        /\ fill_next = rd_n[r]
        /\ fill_next <= max_desired

\* C33 (task termination): with no store call failing, run ends only after
\* the stop signal, and when it has ended it has returned Ok(()) and the
\* write guard is dropped.
C33_SynchronizerTermination ==
    sync_pc = "done" => (stop /\ sync_result = "ok" /\ ~write_locked)

\* ------------------------------------------------------ read-path selection
\* Worker w1 calls access_storage and load_batch before and after the
\* catch-up, worker w2 calls load_batch for the first batch once the cell is
\* set; no store call fails and no stop signal is sent.
InitPaths ==
    /\ db \in UNION {[1..n -> PlainContents] : n \in 0..1}
    /\ processed \in 0..Len(db)
    /\ InitWorkers(MaxWindow, Readers)

NextPaths ==
    \/ SealBatch
    \/ AdvanceProcessed
    \/ SyncStep
    \/ GuardStep
    \/ CallDirectView("w1")
    \/ CallDirectLoad("w1")
    \/ CallCachedView("w1")
    \/ ViewBail("w1")
    \/ ViewWait("w1")
    \/ ViewProceed("w1")
    \/ ViewSynchronize("w1")
    \/ CallCachedLoadIn("w2", {1})
    \/ LoadNone("w2")
    \/ LoadWait("w2")
    \/ LoadSome("w2")

SpecPaths == InitPaths /\ [][NextPaths]_vars

\* C34 (monotonic read-path selection): a call is on the RocksDB branch only
\* when the cell is set, the cell once set stays set, and every call made
\* with the cell set takes the RocksDB branch; so after any call on the
\* RocksDB branch no call takes the Postgres branch.
C34_PathMonotonic ==
    /\ [](\A r \in Readers : rd_path[r] = "cached" => rocksdb_cell)
    /\ [][rocksdb_cell => rocksdb_cell']_vars
    /\ [][\A r \in Readers :
            (rocksdb_cell /\ rd_pc[r] = "idle" /\ rd_pc'[r] # "idle") =>
                rd_path'[r] = "cached"]_vars

\* C34 witness: a load went to Postgres before the cell was set, one worker
\* now holds a result of the RocksDB branch and the other worker has just
\* made a call, which is on the RocksDB branch.
C34_Witness ==
    /\ direct_result.n >= 0
    /\ \E r, q \in Readers :
        /\ r # q
        /\ rd_path[r] = "cached" /\ rd_pc[r] = "release"
        /\ rd_result[r].kind \in {"view", "some"}
        /\ rd_path[q] = "cached" /\ rd_pc[q] = "acquire"

\* C35 (only sealed batches are prefetched): every key of the window is a
\* batch that was sealed when its entry was inserted, and the entry is the
\* data of that sealed batch; nothing is stored for the batch that is still
\* being built.
C35_OnlySealedPrefetched ==
    /\ [](\A b \in DOMAIN storage :
            /\ b >= 1
            /\ b <= SealedL1BatchNumber(db)
            /\ storage[b] = StorageDataFor(db, b))
    /\ [][\A b \in DOMAIN storage' \ DOMAIN storage :
            b <= SealedL1BatchNumber(db)]_vars

\* C35 witness: the fill loop has stored sealed batches and has now reached
\* the batch after the last sealed one, within its range.
C35_Witness ==
    /\ sync_pc = "fill"
    /\ storage # EmptyMap
    /\ fill_next = SealedL1BatchNumber(db) + 1
    /\ fill_next <= max_desired

\* ------------------------------------------- a loader that goes backwards
\* The loader reports a lower processed batch than it reported before.
RegressProcessed ==
    /\ \E p \in 0..(processed - 1) : processed' = p
    /\ UNCHANGED <<outside_vars, db, stop, rocksdb_cell, rocksdb_version, catchup_target,
                   state_vars, write_locked, read_holders, sync_pc, sync_result,
                   sync_locals, rd_vars>>

NextRegress ==
    \/ SealBatch
    \/ AdvanceProcessed
    \/ RegressProcessed
    \/ SyncStep
    \/ GuardStep
    \/ ViewStep

\* The fault-free behaviours of the task and a worker over a loader whose
\* latest_processed_batch may go up and down.
SpecRegress == Init /\ [][NextRegress]_vars

\* C36 (robustness to a decreasing progress source): whatever values the
\* loader reports, whenever the task does not hold the write guard every
\* key of the window is greater than the watermark and the window holds at
\* most max_batches_to_load entries.
C36_RegressRobust ==
    ~write_locked =>
        /\ \A b \in DOMAIN storage : b > l1_batch_number
        /\ Cardinality(DOMAIN storage) <= max_batches_to_load

\* C36 witness: the watermark has been moved down by a loader that went
\* backwards, the window still holds entries, the write guard is dropped
\* and a worker holds the read guard.
C36_Witness ==
    /\ ~write_locked
    /\ l1_batch_number < wm_high
    /\ storage # EmptyMap
    /\ read_holders # {}

====
